---- MODULE Spec2Model ----
(***************************************************************************)
(* Model of xdr/signer_key.go: the SignerKey union, its strkey address     *)
(* translation (GetAddress / Address / SetAddress / MustSigner /           *)
(* SetSignedPayload) and its equality (Equals).                            *)
(*                                                                         *)
(* A text address is modelled as the byte string the strkey package packs  *)
(* into it: version byte, raw bytes, check byte.  A Go byte slice is       *)
(* modelled as a slice header: it either owns a private backing array      *)
(* (held by value) or aliases the caller's buffer callerBuf.               *)
(***************************************************************************)
EXTENDS Integers, Sequences, FiniteSets, TLC

\* ---------------------------------------------------------------- bounds
MaxByte == 1
MaxPayload == 1

\* ------------------------------------------------------ program constants
Uint256Len == 32

SignerKeyTypeSignerKeyTypeEd25519 == 0
SignerKeyTypeSignerKeyTypePreAuthTx == 1
SignerKeyTypeSignerKeyTypeHashX == 2
SignerKeyTypeSignerKeyTypeEd25519SignedPayload == 3
\* The first value past the union's tags.
UnknownSignerKeyType == SignerKeyTypeSignerKeyTypeEd25519SignedPayload + 1

VersionByteAccountID == 48
VersionByteMuxedAccount == 96
VersionByteSignedPayload == 120
VersionByteSeed == 144
VersionByteHashTx == 152
VersionByteHashX == 184
\* A byte the codec knows no address kind for.
InvalidVersionByte == VersionByteAccountID + 1

XdrWord == 4
ByteRange == 256

KnownSignerKeyTypes ==
  { SignerKeyTypeSignerKeyTypeEd25519, SignerKeyTypeSignerKeyTypePreAuthTx,
    SignerKeyTypeSignerKeyTypeHashX,
    SignerKeyTypeSignerKeyTypeEd25519SignedPayload }

ValidVersionBytes ==
  { VersionByteAccountID, VersionByteMuxedAccount, VersionByteSignedPayload,
    VersionByteSeed, VersionByteHashTx, VersionByteHashX }

\* ----------------------------------------------------------------- errors
\* An error value is a message and the value its format verb prints.
NoErr == [msg |-> "nil", arg |-> 0]
Err(m, a) == [msg |-> m, arg |-> a]

\* ------------------------------------------------------------ byte helpers
\* s[1] + ... + s[n], eight terms to a step.
RECURSIVE SumTo(_, _)
SumTo(s, n) ==
  IF n = 0 THEN 0
  ELSE IF n < 8 THEN s[n] + SumTo(s, n - 1)
  ELSE s[n] + s[n - 1] + s[n - 2] + s[n - 3] + s[n - 4] + s[n - 5]
       + s[n - 6] + s[n - 7] + SumTo(s, n - 8)
Sum(s) == SumTo(s, Len(s))

Zeros(n) == [i \in 1..n |-> 0]

\* Go's copy(dst[:], src) into a zeroed 32-byte array.
Copy32(src) ==
  [i \in 1..Uint256Len |-> IF i <= Len(src) THEN src[i] ELSE 0]

\* ------------------------------------------------------------ byte slices
\* buf = 0: private backing array `own`; buf = 1: the first `len` bytes of
\* the caller's buffer.
OwnSlice(bytes) == [buf |-> 0, len |-> Len(bytes), own |-> bytes]
AliasSlice(n) == [buf |-> 1, len |-> n, own |-> <<>>]
Bytes(slice, mem) ==
  IF slice.buf = 0 THEN slice.own ELSE SubSeq(mem, 1, slice.len)

\* ------------------------------------------------- strkey (external codec)
Checksum(s) == Sum(s) % ByteRange

\* The text form of (version byte, raw bytes).
Frame(vb, raw) == <<vb>> \o raw \o <<Checksum(<<vb>> \o raw)>>

\* base32 decoding of the text: fails on a character outside the alphabet
\* and on a text too short to hold version byte and check bytes.
decodeString(src) ==
  IF \E i \in 1..Len(src) : src[i] >= ByteRange
    THEN [raw |-> <<>>, err |-> Err("base32 decode failed", 0)]
  ELSE IF Len(src) < 2
    THEN [raw |-> <<>>, err |-> Err("encoded value too short", Len(src))]
  ELSE [raw |-> src, err |-> NoErr]

Encode(vb, raw) ==
  IF vb \notin ValidVersionBytes
    THEN [str |-> <<>>, err |-> Err("invalid version byte", vb)]
    ELSE [str |-> Frame(vb, raw), err |-> NoErr]

Version(src) ==
  LET d == decodeString(src) IN
  IF d.err # NoErr THEN [vb |-> 0, err |-> d.err]
  ELSE IF d.raw[1] \notin ValidVersionBytes
    THEN [vb |-> 0, err |-> Err("invalid version byte", d.raw[1])]
  ELSE [vb |-> d.raw[1], err |-> NoErr]

Decode(expected, src) ==
  LET d == decodeString(src) IN
  IF expected \notin ValidVersionBytes
    THEN [raw |-> <<>>, err |-> Err("invalid version byte", expected)]
  ELSE IF d.err # NoErr THEN [raw |-> <<>>, err |-> d.err]
  ELSE IF d.raw[1] # expected
    THEN [raw |-> <<>>, err |-> Err("invalid version byte", d.raw[1])]
  ELSE IF Checksum(SubSeq(d.raw, 1, Len(d.raw) - 1)) # d.raw[Len(d.raw)]
    THEN [raw |-> <<>>, err |-> Err("invalid checksum", 0)]
  ELSE [raw |-> SubSeq(d.raw, 2, Len(d.raw) - 1), err |-> NoErr]

\* --------------------------------- SignerKeyEd25519SignedPayload (binary)
PadLen(n) == (XdrWord - (n % XdrWord)) % XdrWord

LenPrefix(n) ==
  << (n \div (ByteRange * ByteRange * ByteRange)) % ByteRange,
     (n \div (ByteRange * ByteRange)) % ByteRange,
     (n \div ByteRange) % ByteRange,
     n % ByteRange >>

PrefixValue(b) ==
  ((b[1] * ByteRange + b[2]) * ByteRange + b[3]) * ByteRange + b[4]

\* key, length-prefixed payload, zero padding to the word size.
MarshalBinary(p, mem) ==
  LET pl == Bytes(p.Payload, mem) IN
  [raw |-> p.Ed25519 \o LenPrefix(Len(pl)) \o pl \o Zeros(PadLen(Len(pl))),
   err |-> NoErr]

UnmarshalBinary(raw) ==
  LET bad(m) == [p |-> [Ed25519 |-> Zeros(Uint256Len),
                        Payload |-> OwnSlice(<<>>)],
                 err |-> Err(m, Len(raw))]
      hdr == Uint256Len + XdrWord
  IN
  IF Len(raw) < hdr THEN bad("xdr: short input")
  ELSE LET n == PrefixValue(SubSeq(raw, Uint256Len + 1, hdr)) IN
    IF Len(raw) # hdr + n + PadLen(n) THEN bad("xdr: length mismatch")
    ELSE IF \E i \in (hdr + n + 1)..Len(raw) : raw[i] # 0
      THEN bad("xdr: non-zero padding")
    ELSE [p |-> [Ed25519 |-> SubSeq(raw, 1, Uint256Len),
                 Payload |-> OwnSlice(SubSeq(raw, hdr + 1, hdr + n))],
          err |-> NoErr]

\* --------------------------------------------------------- SignerKey union
\* A nil arm pointer is the empty set, a set arm the singleton of its value.
ZeroSignerKey ==
  [Type |-> SignerKeyTypeSignerKeyTypeEd25519, Ed25519 |-> {},
   PreAuthTx |-> {}, HashX |-> {}, Ed25519SignedPayload |-> {}]

\* The interface{} argument of NewSignerKey.
Uint256Value(ui) ==
  [kind |-> "Uint256", Ed25519 |-> ui, Payload |-> OwnSlice(<<>>)]
SignedPayloadValue(p) ==
  [kind |-> "SignerKeyEd25519SignedPayload", Ed25519 |-> p.Ed25519,
   Payload |-> p.Payload]

NewSignerKey(aType, value) ==
  LET result == [ZeroSignerKey EXCEPT !.Type = aType]
      mismatch(m) == [result |-> result, err |-> Err(m, aType)]
  IN
  CASE aType = SignerKeyTypeSignerKeyTypeEd25519 ->
         IF value.kind # "Uint256" THEN mismatch("invalid value, must be Uint256")
         ELSE [result |-> [result EXCEPT !.Ed25519 = {value.Ed25519}],
               err |-> NoErr]
    [] aType = SignerKeyTypeSignerKeyTypePreAuthTx ->
         IF value.kind # "Uint256" THEN mismatch("invalid value, must be Uint256")
         ELSE [result |-> [result EXCEPT !.PreAuthTx = {value.Ed25519}],
               err |-> NoErr]
    [] aType = SignerKeyTypeSignerKeyTypeHashX ->
         IF value.kind # "Uint256" THEN mismatch("invalid value, must be Uint256")
         ELSE [result |-> [result EXCEPT !.HashX = {value.Ed25519}],
               err |-> NoErr]
    [] aType = SignerKeyTypeSignerKeyTypeEd25519SignedPayload ->
         IF value.kind # "SignerKeyEd25519SignedPayload"
           THEN mismatch("invalid value, must be SignerKeyEd25519SignedPayload")
         ELSE [result |->
                 [result EXCEPT !.Ed25519SignedPayload =
                    {[Ed25519 |-> value.Ed25519, Payload |-> value.Payload]}],
               err |-> NoErr]
    [] OTHER -> [result |-> result, err |-> NoErr]

\* The arm selected by the tag (empty when the tag is unknown or the arm is
\* not set): what the Must accessor of the tag's case reads.
Arm(skey) ==
  CASE skey.Type = SignerKeyTypeSignerKeyTypeEd25519 -> skey.Ed25519
    [] skey.Type = SignerKeyTypeSignerKeyTypePreAuthTx -> skey.PreAuthTx
    [] skey.Type = SignerKeyTypeSignerKeyTypeHashX -> skey.HashX
    [] skey.Type = SignerKeyTypeSignerKeyTypeEd25519SignedPayload ->
         skey.Ed25519SignedPayload
    [] OTHER -> {}

MustEd25519(skey) == CHOOSE k \in skey.Ed25519 : TRUE
MustHashX(skey) == CHOOSE k \in skey.HashX : TRUE
MustPreAuthTx(skey) == CHOOSE k \in skey.PreAuthTx : TRUE
MustEd25519SignedPayload(skey) == CHOOSE p \in skey.Ed25519SignedPayload : TRUE

ArmNotSet(t) == Err("arm is not set", t)

\* ------------------------------------------------------------- GetAddress
\* GetAddressSwitch with the version bytes of HashX and PreAuthTx exchanged.
GetAddressSwitchSwapped(skey, mem) ==
  LET out(vb, raw) == [vb |-> vb, raw |-> raw, err |-> NoErr, panicked |-> FALSE]
      stop(e, pn) == [vb |-> 0, raw |-> Zeros(Uint256Len), err |-> e,
                      panicked |-> pn]
  IN
  CASE skey.Type = SignerKeyTypeSignerKeyTypeEd25519 ->
         IF skey.Ed25519 = {} THEN stop(ArmNotSet(skey.Type), TRUE)
         ELSE out(VersionByteAccountID, Copy32(MustEd25519(skey)))
    [] skey.Type = SignerKeyTypeSignerKeyTypeHashX ->
         IF skey.HashX = {} THEN stop(ArmNotSet(skey.Type), TRUE)
         ELSE out(VersionByteHashTx, Copy32(MustHashX(skey)))
    [] skey.Type = SignerKeyTypeSignerKeyTypePreAuthTx ->
         IF skey.PreAuthTx = {} THEN stop(ArmNotSet(skey.Type), TRUE)
         ELSE out(VersionByteHashX, Copy32(MustPreAuthTx(skey)))
    [] skey.Type = SignerKeyTypeSignerKeyTypeEd25519SignedPayload ->
         IF skey.Ed25519SignedPayload = {}
           THEN stop(ArmNotSet(skey.Type), TRUE)
         ELSE LET m == MarshalBinary(MustEd25519SignedPayload(skey), mem) IN
              IF m.err # NoErr THEN stop(m.err, FALSE)
              ELSE out(VersionByteSignedPayload, m.raw)
    [] OTHER -> stop(Err("unknown signer key type", skey.Type), FALSE)

\* GetAddressSwitch without the default case: an unknown tag goes on to the
\* codec with the initial version byte and the zeroed raw bytes.
GetAddressSwitchNoDefault(skey, mem) ==
  LET out(vb, raw) == [vb |-> vb, raw |-> raw, err |-> NoErr, panicked |-> FALSE]
      stop(e, pn) == [vb |-> 0, raw |-> Zeros(Uint256Len), err |-> e,
                      panicked |-> pn]
  IN
  CASE skey.Type = SignerKeyTypeSignerKeyTypeEd25519 ->
         IF skey.Ed25519 = {} THEN stop(ArmNotSet(skey.Type), TRUE)
         ELSE out(VersionByteAccountID, Copy32(MustEd25519(skey)))
    [] skey.Type = SignerKeyTypeSignerKeyTypeHashX ->
         IF skey.HashX = {} THEN stop(ArmNotSet(skey.Type), TRUE)
         ELSE out(VersionByteHashX, Copy32(MustHashX(skey)))
    [] skey.Type = SignerKeyTypeSignerKeyTypePreAuthTx ->
         IF skey.PreAuthTx = {} THEN stop(ArmNotSet(skey.Type), TRUE)
         ELSE out(VersionByteHashTx, Copy32(MustPreAuthTx(skey)))
    [] skey.Type = SignerKeyTypeSignerKeyTypeEd25519SignedPayload ->
         IF skey.Ed25519SignedPayload = {}
           THEN stop(ArmNotSet(skey.Type), TRUE)
         ELSE LET m == MarshalBinary(MustEd25519SignedPayload(skey), mem) IN
              IF m.err # NoErr THEN stop(m.err, FALSE)
              ELSE out(VersionByteSignedPayload, m.raw)
    [] OTHER -> out(0, Zeros(Uint256Len))

\* The switch of GetAddress: the version byte and raw bytes handed to the
\* codec, or the error / accessor panic that ends the call before it.
GetAddressSwitch(skey, mem) ==
  LET out(vb, raw) == [vb |-> vb, raw |-> raw, err |-> NoErr, panicked |-> FALSE]
      stop(e, pn) == [vb |-> 0, raw |-> Zeros(Uint256Len), err |-> e,
                      panicked |-> pn]
  IN
  CASE skey.Type = SignerKeyTypeSignerKeyTypeEd25519 ->
         IF skey.Ed25519 = {} THEN stop(ArmNotSet(skey.Type), TRUE)
         ELSE out(VersionByteAccountID, Copy32(MustEd25519(skey)))
    [] skey.Type = SignerKeyTypeSignerKeyTypeHashX ->
         IF skey.HashX = {} THEN stop(ArmNotSet(skey.Type), TRUE)
         ELSE out(VersionByteHashX, Copy32(MustHashX(skey)))
    [] skey.Type = SignerKeyTypeSignerKeyTypePreAuthTx ->
         IF skey.PreAuthTx = {} THEN stop(ArmNotSet(skey.Type), TRUE)
         ELSE out(VersionByteHashTx, Copy32(MustPreAuthTx(skey)))
    [] skey.Type = SignerKeyTypeSignerKeyTypeEd25519SignedPayload ->
         IF skey.Ed25519SignedPayload = {}
           THEN stop(ArmNotSet(skey.Type), TRUE)
         ELSE LET m == MarshalBinary(MustEd25519SignedPayload(skey), mem) IN
              IF m.err # NoErr THEN stop(m.err, FALSE)
              ELSE out(VersionByteSignedPayload, m.raw)
    [] OTHER -> stop(Err("unknown signer key type", skey.Type), FALSE)

\* GetAddress without the nil check: the switch dereferences the nil receiver.
GetAddressNoNilCheck(isNil, skey, mem) ==
  IF isNil
    THEN [str |-> <<>>, err |-> Err("nil pointer dereference", 0),
          panicked |-> TRUE, calls |-> <<>>]
  ELSE LET sw == GetAddressSwitch(skey, mem) IN
    IF sw.panicked \/ sw.err # NoErr
      THEN [str |-> <<>>, err |-> sw.err, panicked |-> sw.panicked,
            calls |-> <<>>]
    ELSE LET e == Encode(sw.vb, sw.raw) IN
      [str |-> e.str, err |-> e.err, panicked |-> FALSE,
       calls |-> <<[fn |-> "Encode", vb |-> sw.vb]>>]

GetAddress(isNil, skey, mem) ==
  IF isNil
    THEN [str |-> <<>>, err |-> NoErr, panicked |-> FALSE, calls |-> <<>>]
  ELSE LET sw == GetAddressSwitch(skey, mem) IN
    IF sw.panicked \/ sw.err # NoErr
      THEN [str |-> <<>>, err |-> sw.err, panicked |-> sw.panicked,
            calls |-> <<>>]
    ELSE LET e == Encode(sw.vb, sw.raw) IN
      [str |-> e.str, err |-> e.err, panicked |-> FALSE,
       calls |-> <<[fn |-> "Encode", vb |-> sw.vb]>>]

Address(isNil, skey, mem) ==
  LET g == GetAddress(isNil, skey, mem) IN
  IF g.err # NoErr THEN [g EXCEPT !.panicked = TRUE] ELSE g

\* ----------------------------------------------------------------- Equals
\* Equals whose default case returns false instead of panicking.
EqualsNoPanic(skey, other, mem) ==
  LET ret(b) == [result |-> b, err |-> NoErr, panicked |-> FALSE]
      panic(e) == [result |-> FALSE, err |-> e, panicked |-> TRUE]
  IN
  IF skey.Type # other.Type THEN ret(FALSE)
  ELSE CASE skey.Type = SignerKeyTypeSignerKeyTypeEd25519 ->
         IF skey.Ed25519 = {} \/ other.Ed25519 = {}
           THEN panic(ArmNotSet(skey.Type))
         ELSE ret(MustEd25519(skey) = MustEd25519(other))
    [] skey.Type = SignerKeyTypeSignerKeyTypeHashX ->
         IF skey.HashX = {} \/ other.HashX = {}
           THEN panic(ArmNotSet(skey.Type))
         ELSE ret(MustHashX(skey) = MustHashX(other))
    [] skey.Type = SignerKeyTypeSignerKeyTypePreAuthTx ->
         IF skey.PreAuthTx = {} \/ other.PreAuthTx = {}
           THEN panic(ArmNotSet(skey.Type))
         ELSE ret(MustPreAuthTx(skey) = MustPreAuthTx(other))
    [] skey.Type = SignerKeyTypeSignerKeyTypeEd25519SignedPayload ->
         IF skey.Ed25519SignedPayload = {} \/ other.Ed25519SignedPayload = {}
           THEN panic(ArmNotSet(skey.Type))
         ELSE LET l == MustEd25519SignedPayload(skey)
                  r == MustEd25519SignedPayload(other)
              IN ret(l.Ed25519 = r.Ed25519
                     /\ Bytes(l.Payload, mem) = Bytes(r.Payload, mem))
    [] OTHER -> ret(FALSE)

\* Equals that compares the payloads only over the shorter one's length.
EqualsPayloadPrefix(skey, other, mem) ==
  LET ret(b) == [result |-> b, err |-> NoErr, panicked |-> FALSE]
      panic(e) == [result |-> FALSE, err |-> e, panicked |-> TRUE]
  IN
  IF skey.Type # other.Type THEN ret(FALSE)
  ELSE CASE skey.Type = SignerKeyTypeSignerKeyTypeEd25519 ->
         IF skey.Ed25519 = {} \/ other.Ed25519 = {}
           THEN panic(ArmNotSet(skey.Type))
         ELSE ret(MustEd25519(skey) = MustEd25519(other))
    [] skey.Type = SignerKeyTypeSignerKeyTypeHashX ->
         IF skey.HashX = {} \/ other.HashX = {}
           THEN panic(ArmNotSet(skey.Type))
         ELSE ret(MustHashX(skey) = MustHashX(other))
    [] skey.Type = SignerKeyTypeSignerKeyTypePreAuthTx ->
         IF skey.PreAuthTx = {} \/ other.PreAuthTx = {}
           THEN panic(ArmNotSet(skey.Type))
         ELSE ret(MustPreAuthTx(skey) = MustPreAuthTx(other))
    [] skey.Type = SignerKeyTypeSignerKeyTypeEd25519SignedPayload ->
         IF skey.Ed25519SignedPayload = {} \/ other.Ed25519SignedPayload = {}
           THEN panic(ArmNotSet(skey.Type))
         ELSE LET l == MustEd25519SignedPayload(skey)
                  r == MustEd25519SignedPayload(other)
                  lb == Bytes(l.Payload, mem)
                  rb == Bytes(r.Payload, mem)
                  n == IF Len(lb) < Len(rb) THEN Len(lb) ELSE Len(rb)
              IN ret(l.Ed25519 = r.Ed25519
                     /\ SubSeq(lb, 1, n) = SubSeq(rb, 1, n))
    [] OTHER -> panic(Err("Unknown signer key type", skey.Type))

Equals(skey, other, mem) ==
  LET ret(b) == [result |-> b, err |-> NoErr, panicked |-> FALSE]
      panic(e) == [result |-> FALSE, err |-> e, panicked |-> TRUE]
  IN
  IF skey.Type # other.Type THEN ret(FALSE)
  ELSE CASE skey.Type = SignerKeyTypeSignerKeyTypeEd25519 ->
         IF skey.Ed25519 = {} \/ other.Ed25519 = {}
           THEN panic(ArmNotSet(skey.Type))
         ELSE ret(MustEd25519(skey) = MustEd25519(other))
    [] skey.Type = SignerKeyTypeSignerKeyTypeHashX ->
         IF skey.HashX = {} \/ other.HashX = {}
           THEN panic(ArmNotSet(skey.Type))
         ELSE ret(MustHashX(skey) = MustHashX(other))
    [] skey.Type = SignerKeyTypeSignerKeyTypePreAuthTx ->
         IF skey.PreAuthTx = {} \/ other.PreAuthTx = {}
           THEN panic(ArmNotSet(skey.Type))
         ELSE ret(MustPreAuthTx(skey) = MustPreAuthTx(other))
    [] skey.Type = SignerKeyTypeSignerKeyTypeEd25519SignedPayload ->
         IF skey.Ed25519SignedPayload = {} \/ other.Ed25519SignedPayload = {}
           THEN panic(ArmNotSet(skey.Type))
         ELSE LET l == MustEd25519SignedPayload(skey)
                  r == MustEd25519SignedPayload(other)
              IN ret(l.Ed25519 = r.Ed25519
                     /\ Bytes(l.Payload, mem) = Bytes(r.Payload, mem))
    [] OTHER -> panic(Err("Unknown signer key type", skey.Type))

\* ------------------------------------------------------------- SetAddress
\* KeyTypeOfVersion with the key types of HashX and HashTx exchanged.
KeyTypeOfVersionSwapped(vb) ==
  CASE vb = VersionByteAccountID ->
         [keytype |-> SignerKeyTypeSignerKeyTypeEd25519, err |-> NoErr]
    [] vb = VersionByteHashX ->
         [keytype |-> SignerKeyTypeSignerKeyTypePreAuthTx, err |-> NoErr]
    [] vb = VersionByteHashTx ->
         [keytype |-> SignerKeyTypeSignerKeyTypeHashX, err |-> NoErr]
    [] vb = VersionByteSignedPayload ->
         [keytype |-> SignerKeyTypeSignerKeyTypeEd25519SignedPayload,
          err |-> NoErr]
    [] OTHER -> [keytype |-> SignerKeyTypeSignerKeyTypeEd25519,
                 err |-> Err("invalid version byte", vb)]

\* The first switch of SetAddress: version byte to key type.
KeyTypeOfVersion(vb) ==
  CASE vb = VersionByteAccountID ->
         [keytype |-> SignerKeyTypeSignerKeyTypeEd25519, err |-> NoErr]
    [] vb = VersionByteHashX ->
         [keytype |-> SignerKeyTypeSignerKeyTypeHashX, err |-> NoErr]
    [] vb = VersionByteHashTx ->
         [keytype |-> SignerKeyTypeSignerKeyTypePreAuthTx, err |-> NoErr]
    [] vb = VersionByteSignedPayload ->
         [keytype |-> SignerKeyTypeSignerKeyTypeEd25519SignedPayload,
          err |-> NoErr]
    [] OTHER -> [keytype |-> SignerKeyTypeSignerKeyTypeEd25519,
                 err |-> Err("invalid version byte", vb)]

\* SetAddressDecoded that writes the tag into the receiver before it decodes
\* the signed payload.
SetAddressDecodedTagFirst(skey, vb, keytype, raw) ==
  CASE vb \in {VersionByteAccountID, VersionByteHashX, VersionByteHashTx} ->
         IF Len(raw) # Uint256Len
           THEN [skey |-> skey, err |-> Err("invalid address", 0)]
         ELSE LET n == NewSignerKey(keytype, Uint256Value(Copy32(raw))) IN
              [skey |-> n.result, err |-> n.err]
    [] vb = VersionByteSignedPayload ->
         LET u == UnmarshalBinary(raw) IN
         IF u.err # NoErr
           THEN [skey |-> [skey EXCEPT !.Type = keytype], err |-> u.err]
         ELSE LET n == NewSignerKey(keytype, SignedPayloadValue(u.p)) IN
              [skey |-> n.result, err |-> n.err]
    [] OTHER -> [skey |-> skey, err |-> Err("invalid version byte", vb)]

\* SetAddressDecoded without the length check of the fixed-size cases.
SetAddressDecodedNoLength(skey, vb, keytype, raw) ==
  CASE vb \in {VersionByteAccountID, VersionByteHashX, VersionByteHashTx} ->
         LET n == NewSignerKey(keytype, Uint256Value(Copy32(raw))) IN
         [skey |-> n.result, err |-> n.err]
    [] vb = VersionByteSignedPayload ->
         LET u == UnmarshalBinary(raw) IN
         IF u.err # NoErr THEN [skey |-> skey, err |-> u.err]
         ELSE LET n == NewSignerKey(keytype, SignedPayloadValue(u.p)) IN
              [skey |-> n.result, err |-> n.err]
    [] OTHER -> [skey |-> skey, err |-> Err("invalid version byte", vb)]

\* The second switch of SetAddress: builds the key from the decoded bytes.
SetAddressDecoded(skey, vb, keytype, raw) ==
  CASE vb \in {VersionByteAccountID, VersionByteHashX, VersionByteHashTx} ->
         IF Len(raw) # Uint256Len
           THEN [skey |-> skey, err |-> Err("invalid address", 0)]
         ELSE LET n == NewSignerKey(keytype, Uint256Value(Copy32(raw))) IN
              [skey |-> n.result, err |-> n.err]
    [] vb = VersionByteSignedPayload ->
         LET u == UnmarshalBinary(raw) IN
         IF u.err # NoErr THEN [skey |-> skey, err |-> u.err]
         ELSE LET n == NewSignerKey(keytype, SignedPayloadValue(u.p)) IN
              [skey |-> n.result, err |-> n.err]
    [] OTHER -> [skey |-> skey, err |-> Err("invalid version byte", vb)]

SetAddress(isNil, skey, address) ==
  LET cv == [fn |-> "Version", vb |-> 0] IN
  IF isNil THEN [skey |-> skey, err |-> NoErr, calls |-> <<>>]
  ELSE LET v == Version(address) IN
    IF v.err # NoErr
      THEN [skey |-> skey,
            err |-> Err("failed to extract address version", v.err.arg),
            calls |-> <<cv>>]
    ELSE LET kt == KeyTypeOfVersion(v.vb) IN
      IF kt.err # NoErr
        THEN [skey |-> skey, err |-> kt.err, calls |-> <<cv>>]
      ELSE LET d == Decode(v.vb, address)
               cd == [fn |-> "Decode", vb |-> v.vb]
           IN
        IF d.err # NoErr
          THEN [skey |-> skey, err |-> d.err, calls |-> <<cv, cd>>]
        ELSE LET r == SetAddressDecoded(skey, v.vb, kt.keytype, d.raw) IN
          [skey |-> r.skey, err |-> r.err, calls |-> <<cv, cd>>]

MustSigner(address) ==
  LET r == SetAddress(FALSE, ZeroSignerKey, address) IN
  [aid |-> r.skey, err |-> r.err, panicked |-> r.err # NoErr,
   calls |-> r.calls]

\* ------------------------------------------------------- SetSignedPayload
SetSignedPayload(isNil, skey, address, payload) ==
  IF isNil THEN [skey |-> skey, err |-> NoErr, calls |-> <<>>]
  ELSE LET d == Decode(VersionByteAccountID, address)
           cd == [fn |-> "Decode", vb |-> VersionByteAccountID]
       IN
    IF d.err # NoErr THEN [skey |-> skey, err |-> d.err, calls |-> <<cd>>]
    ELSE LET p == [Ed25519 |-> Copy32(d.raw), Payload |-> payload]
             n == NewSignerKey(SignerKeyTypeSignerKeyTypeEd25519SignedPayload,
                               SignedPayloadValue(p))
         IN [skey |-> n.result, err |-> n.err, calls |-> <<cd>>]

\* ----------------------------------------------------------------- inputs
ByteVals == 0..MaxByte

\* Two 32-byte values: all zero, and 1, 2, ..., 32 (every byte distinct).
ZeroKey == Zeros(Uint256Len)
Keys == { ZeroKey, [i \in 1..Uint256Len |-> i] }

\* The payloads given by value: every length, one byte value repeated.
\* Payloads of mixed bytes come in through the caller's buffer.
Payloads == { [i \in 1..n |-> b] : n \in 0..MaxPayload, b \in ByteVals }

FixedTypes ==
  { SignerKeyTypeSignerKeyTypeEd25519, SignerKeyTypeSignerKeyTypePreAuthTx,
    SignerKeyTypeSignerKeyTypeHashX }

\* The signed payloads given as input: every payload under the zero key,
\* the empty payload under every key; each owns its bytes.
SignedPayloadInputs ==
  { [Ed25519 |-> k, Payload |-> OwnSlice(pl)] :
      k \in {ZeroKey}, pl \in Payloads }
  \cup { [Ed25519 |-> k, Payload |-> OwnSlice(<<>>)] : k \in Keys }

\* The keys the constructor builds.
ValidVariants ==
  { NewSignerKey(t, Uint256Value(k)).result : t \in FixedTypes, k \in Keys }
  \cup
  { NewSignerKey(SignerKeyTypeSignerKeyTypeEd25519SignedPayload,
                 SignedPayloadValue(p)).result : p \in SignedPayloadInputs }

\* A key whose tag is outside the union, as SignerKey{Type: 4} builds it.
UnknownVariants == { [ZeroSignerKey EXCEPT !.Type = UnknownSignerKeyType] }

InitVariants == ValidVariants \cup UnknownVariants

\* The right operands of Equals: every initial key and a key with a second
\* unknown tag.
OtherArgs ==
  InitVariants \cup { [ZeroSignerKey EXCEPT !.Type = UnknownSignerKeyType + 1] }

\* 31 and 33 raw bytes.
WrongLengthRaws ==
  { SubSeq(Zeros(Uint256Len), 1, Uint256Len - 1), Zeros(Uint256Len) \o <<0>> }

MarshalledRaws == { MarshalBinary(p, <<>>).raw : p \in SignedPayloadInputs }

\* Signed-payload bytes the binary decoder refuses: a declared length with
\* no payload behind it, a non-zero padding byte, trailing bytes.
MalformedRaws ==
  { ZeroKey \o LenPrefix(1),
    ZeroKey \o LenPrefix(1) \o <<1, 0, 0, 1>>,
    ZeroKey \o LenPrefix(0) \o Zeros(XdrWord) }

CorruptCheck(a) == [a EXCEPT ![Len(a)] = (a[Len(a)] + 1) % ByteRange]

MappedVersionBytes ==
  { VersionByteAccountID, VersionByteHashX, VersionByteHashTx,
    VersionByteSignedPayload }

Addresses ==
  { Frame(vb, k) :
      vb \in MappedVersionBytes \cup {VersionByteSeed, InvalidVersionByte},
      k \in Keys }
  \cup { Frame(vb, r) :
           vb \in {VersionByteAccountID, VersionByteHashX, VersionByteHashTx},
           r \in WrongLengthRaws }
  \cup { Frame(VersionByteSignedPayload, r) :
           r \in MarshalledRaws \cup MalformedRaws }
  \cup { CorruptCheck(Frame(vb, ZeroKey)) :
           vb \in {VersionByteAccountID, VersionByteSignedPayload} }
  \cup { <<>>, <<VersionByteAccountID, ByteRange, 0>> }

\* The addresses tried as the account address of SetSignedPayload and as
\* the argument of MustSigner.
AccountArgs ==
  { Frame(VersionByteAccountID, r) : r \in Keys \cup WrongLengthRaws }
  \cup { Frame(VersionByteHashX, ZeroKey),
         CorruptCheck(Frame(VersionByteAccountID, ZeroKey)) }

\* The addresses tried on a nil receiver.
NilArgs ==
  { Frame(VersionByteAccountID, ZeroKey),
    CorruptCheck(Frame(VersionByteAccountID, ZeroKey)) }

ArgsFor(isNil, set) == IF isNil THEN NilArgs ELSE set

\* ------------------------------------------------------------------ state
VARIABLES
  skey,       \* the SignerKey the non-nil receiver pointer points at
  callerBuf,  \* the caller's payload buffer
  ret         \* the last call: its arguments, its results, the codec calls

vars == <<skey, callerBuf, ret>>

Call(op, isNil, address, plen, other, str, err, panicked, result, calls) ==
  [op |-> op, nilrecv |-> isNil, address |-> address, plen |-> plen,
   other |-> other, old |-> skey, str |-> str, err |-> err,
   panicked |-> panicked, result |-> result, calls |-> calls]

Init ==
  /\ skey \in InitVariants
  /\ callerBuf \in [1..MaxPayload -> ByteVals]
  /\ ret = Call("init", FALSE, <<>>, 0, ZeroSignerKey, <<>>, NoErr, FALSE,
                FALSE, <<>>)

CallGetAddress(isNil) ==
  LET g == GetAddress(isNil, skey, callerBuf) IN
  /\ ret' = Call("GetAddress", isNil, <<>>, 0, ZeroSignerKey, g.str, g.err,
                 g.panicked, FALSE, g.calls)
  /\ UNCHANGED <<skey, callerBuf>>

CallAddress(isNil) ==
  LET g == Address(isNil, skey, callerBuf) IN
  /\ ret' = Call("Address", isNil, <<>>, 0, ZeroSignerKey, g.str, g.err,
                 g.panicked, FALSE, g.calls)
  /\ UNCHANGED <<skey, callerBuf>>

CallEquals(other) ==
  LET e == Equals(skey, other, callerBuf) IN
  /\ ret' = Call("Equals", FALSE, <<>>, 0, other, <<>>, e.err, e.panicked,
                 e.result, <<>>)
  /\ UNCHANGED <<skey, callerBuf>>

CallSetAddress(isNil, address) ==
  LET r == SetAddress(isNil, skey, address) IN
  /\ skey' = r.skey
  /\ ret' = Call("SetAddress", isNil, address, 0, ZeroSignerKey, <<>>, r.err,
                 FALSE, FALSE, r.calls)
  /\ UNCHANGED callerBuf

\* skey = MustSigner(address): the assignment happens only on return.
CallMustSigner(address) ==
  LET r == MustSigner(address) IN
  /\ skey' = IF r.panicked THEN skey ELSE r.aid
  /\ ret' = Call("MustSigner", FALSE, address, 0, ZeroSignerKey, <<>>, r.err,
                 r.panicked, FALSE, r.calls)
  /\ UNCHANGED callerBuf

\* The caller passes callerBuf[:n] as the payload.
CallSetSignedPayload(isNil, address, n) ==
  LET r == SetSignedPayload(isNil, skey, address, AliasSlice(n)) IN
  /\ skey' = r.skey
  /\ ret' = Call("SetSignedPayload", isNil, address, n, ZeroSignerKey, <<>>,
                 r.err, FALSE, FALSE, r.calls)
  /\ UNCHANGED callerBuf

\* The caller writes one byte of its own buffer.
MutateBuffer(i, b) ==
  /\ callerBuf[i] # b
  /\ callerBuf' = [callerBuf EXCEPT ![i] = b]
  /\ ret' = Call("MutateBuffer", FALSE, <<>>, 0, ZeroSignerKey, <<>>, NoErr,
                 FALSE, FALSE, <<>>)
  /\ UNCHANGED skey

Next ==
  \/ \E isNil \in BOOLEAN : CallGetAddress(isNil)
  \/ \E isNil \in BOOLEAN : CallAddress(isNil)
  \/ \E other \in OtherArgs : CallEquals(other)
  \/ \E isNil \in BOOLEAN : \E address \in ArgsFor(isNil, Addresses) :
       CallSetAddress(isNil, address)
  \/ \E address \in AccountArgs : CallMustSigner(address)
  \/ \E isNil \in BOOLEAN : \E address \in ArgsFor(isNil, AccountArgs) :
       \E n \in 0..MaxPayload : CallSetSignedPayload(isNil, address, n)
  \/ \E i \in 1..MaxPayload, b \in ByteVals : MutateBuffer(i, b)

Spec == Init /\ [][Next]_vars

\* ------------------------------------------------------------- properties
Known(v) == v.Type \in KnownSignerKeyTypes

\* The last call was `op` on a non-nil receiver.
On(op) == ret.op = op /\ ~ret.nilrecv

\* The stored signed payload of a key, and its payload bytes.
PayloadOf(v, mem) == Bytes((CHOOSE p \in v.Ed25519SignedPayload : TRUE).Payload, mem)
IsSignedPayload(v) ==
  v.Type = SignerKeyTypeSignerKeyTypeEd25519SignedPayload
  /\ v.Ed25519SignedPayload # {}

\* What a key holds, read off its fields: the 32 bytes of a fixed-size
\* case, key and payload bytes of a signed payload.
ContentOf(v, mem) ==
  IF v.Type = SignerKeyTypeSignerKeyTypeEd25519SignedPayload
    THEN { <<p.Ed25519, Bytes(p.Payload, mem)>> : p \in v.Ed25519SignedPayload }
    ELSE { <<k, <<>>>> : k \in Arm(v) }

\* The table of tags and version bytes as the specification states it.
TagTable ==
  { <<SignerKeyTypeSignerKeyTypeEd25519, VersionByteAccountID>>,
    <<SignerKeyTypeSignerKeyTypeHashX, VersionByteHashX>>,
    <<SignerKeyTypeSignerKeyTypePreAuthTx, VersionByteHashTx>>,
    <<SignerKeyTypeSignerKeyTypeEd25519SignedPayload, VersionByteSignedPayload>> }

\* C1: round trip. After GetAddress succeeds on a key v, SetAddress with the
\* returned string succeeds on every receiver and leaves it Equals to v; and
\* a SetAddress call whose argument is the address of a valid key v returns
\* nil and leaves its receiver Equals to v.
C1_RoundTrip ==
  /\ (On("GetAddress") /\ Known(skey) /\ ret.err = NoErr) =>
       \A r \in InitVariants :
         LET s == SetAddress(FALSE, r, ret.str)
             e == Equals(s.skey, skey, callerBuf)
         IN s.err = NoErr /\ e.result /\ ~e.panicked
  /\ On("SetAddress") =>
       \A v \in ValidVariants :
         LET g == GetAddress(FALSE, v, callerBuf) IN
         (g.err = NoErr /\ g.str = ret.address) =>
           /\ ret.err = NoErr
           /\ Equals(skey, v, callerBuf).result
           /\ ContentOf(skey, callerBuf) = ContentOf(v, callerBuf)

C1_Witness ==
  /\ On("SetAddress") /\ ret.err = NoErr
  /\ ~Known(ret.old)
  /\ IsSignedPayload(skey) /\ Len(PayloadOf(skey, callerBuf)) > 0
  /\ \E v \in ValidVariants :
       GetAddress(FALSE, v, callerBuf).str = ret.address

\* C2: failure atomicity. When SetAddress or SetSignedPayload returns an
\* error, the receiver is exactly what it was before the call.
C2_FailureAtomic ==
  (ret.op \in {"SetAddress", "SetSignedPayload"} /\ ret.err # NoErr) =>
    skey = ret.old

C2_Witness ==
  /\ On("SetAddress") /\ ret.err.msg = "xdr: non-zero padding"
  /\ ret.old.Type = SignerKeyTypeSignerKeyTypeHashX /\ skey = ret.old

\* C3: tag preservation. GetAddress hands the codec the version byte the
\* table gives for the key's tag; a successful SetAddress leaves a key whose
\* tag the table pairs with the address's version byte; the table is
\* one-to-one in both directions.
C3_TagPreservation ==
  /\ (ret.op \in {"GetAddress", "Address"} /\ ret.calls # <<>>) =>
       /\ Len(ret.calls) = 1 /\ ret.calls[1].fn = "Encode"
       /\ <<skey.Type, ret.calls[1].vb>> \in TagTable
  /\ (On("SetAddress") /\ ret.err = NoErr) =>
       <<skey.Type, ret.address[1]>> \in TagTable
  /\ \A a, b \in TagTable : (a[1] = b[1]) <=> (a[2] = b[2])
  /\ \A a, b \in MappedVersionBytes :
       KeyTypeOfVersion(a).keytype = KeyTypeOfVersion(b).keytype => a = b

C3_Witness ==
  /\ On("SetAddress") /\ ret.err = NoErr
  /\ skey.Type = SignerKeyTypeSignerKeyTypePreAuthTx
  /\ ret.address[1] = VersionByteHashTx
  /\ ret.old.Type = SignerKeyTypeSignerKeyTypeHashX

\* C4: a key with an unknown tag yields no address. GetAddress returns the
\* empty string and an error naming the tag without calling the codec's
\* encode; Address panics with that error.
C4_UnknownTagNoAddress ==
  /\ (On("GetAddress") /\ ~Known(skey)) =>
       /\ ret.err = Err("unknown signer key type", skey.Type)
       /\ ret.str = <<>> /\ ret.calls = <<>> /\ ~ret.panicked
  /\ (On("Address") /\ ~Known(skey)) =>
       /\ ret.panicked
       /\ ret.err = Err("unknown signer key type", skey.Type)
       /\ ret.str = <<>> /\ ret.calls = <<>>

C4_Witness == On("Address") /\ ~Known(skey) /\ ret.panicked

\* C5 as stated: Equals panics whenever either operand's tag is unknown,
\* also when the two tags differ.
C5_PanicsOnEitherUnknown ==
  (ret.op = "Equals" /\ (~Known(ret.old) \/ ~Known(ret.other))) => ret.panicked

\* C5 as amended: Equals panics, naming the tag, when both operands carry
\* the same unknown tag; when the tags differ it returns false without
\* panicking, also when one or both of them are unknown.
C5_PanicsOnSameUnknown ==
  /\ (ret.op = "Equals" /\ ~Known(ret.old) /\ ret.old.Type = ret.other.Type) =>
       ret.panicked /\ ret.err = Err("Unknown signer key type", ret.old.Type)
  /\ (ret.op = "Equals" /\ ret.old.Type # ret.other.Type) =>
       ~ret.panicked /\ ~ret.result

C5_Witness ==
  /\ ret.op = "Equals" /\ ~Known(ret.old) /\ ~Known(ret.other)
  /\ ret.old.Type = ret.other.Type /\ ret.panicked

\* C6: for two keys with known tags Equals is true exactly when the tags
\* are the same and the content is identical (key, and for a signed payload
\* also the payload's length and bytes); it is reflexive and symmetric.
C6_EqualsIsContentEquality ==
  (ret.op = "Equals" /\ Known(skey) /\ Known(ret.other)) =>
    /\ ~ret.panicked
    /\ ret.result <=> /\ skey.Type = ret.other.Type
                      /\ ContentOf(skey, callerBuf)
                           = ContentOf(ret.other, callerBuf)
    /\ Equals(ret.other, skey, callerBuf).result = ret.result
    /\ Equals(skey, skey, callerBuf).result
    /\ Equals(ret.other, ret.other, callerBuf).result

C6_Witness ==
  /\ ret.op = "Equals" /\ IsSignedPayload(skey) /\ IsSignedPayload(ret.other)
  /\ PayloadOf(ret.other, callerBuf) = PayloadOf(skey, callerBuf) \o <<0>>
  /\ ~ret.result

\* C7: SetAddress (and MustSigner through it) rejects an address whose
\* version byte the codec accepts but the table lacks, and an address of a
\* fixed-size case whose raw bytes are not 32 long; no key is produced.
Rejected ==
  /\ ret.err # NoErr /\ skey = ret.old
  /\ ret.op = "MustSigner" => ret.panicked

C7_RejectsUnmappedAndWrongLength ==
  (ret.op \in {"SetAddress", "MustSigner"} /\ ~ret.nilrecv) =>
    LET v == Version(ret.address)
        d == Decode(v.vb, ret.address)
    IN /\ (v.err = NoErr /\ v.vb \notin MappedVersionBytes) => Rejected
       /\ ( /\ v.err = NoErr
            /\ v.vb \in {VersionByteAccountID, VersionByteHashX,
                         VersionByteHashTx}
            /\ d.err = NoErr /\ Len(d.raw) # Uint256Len ) => Rejected

C7_Witness ==
  /\ On("SetAddress") /\ ret.err = Err("invalid address", 0)
  /\ Len(Decode(VersionByteHashX, ret.address).raw) = Uint256Len + 1
  /\ Decode(VersionByteHashX, ret.address).err = NoErr

\* C8: the payload is a snapshot. A write to the caller's buffer right after
\* a successful SetSignedPayload changes neither the payload the receiver
\* holds nor what GetAddress and Equals return for it.
C8_PayloadIsSnapshot ==
  [][ ( /\ On("SetSignedPayload") /\ ret.err = NoErr
        /\ ret'.op = "MutateBuffer" ) =>
      /\ PayloadOf(skey', callerBuf') = PayloadOf(skey, callerBuf)
      /\ GetAddress(FALSE, skey', callerBuf') = GetAddress(FALSE, skey, callerBuf)
      /\ \A o \in ValidVariants :
           Equals(skey', o, callerBuf') = Equals(skey, o, callerBuf) ]_vars

\* C9: SetSignedPayload decodes the address under the AccountID version
\* byte only; when that decode succeeds it returns nil and the receiver is
\* a signed-payload key whose key is the decoded raw bytes and whose payload
\* is the given bytes (the empty payload included); otherwise it returns an
\* error.
C9_SetSignedPayload ==
  On("SetSignedPayload") =>
    LET d == Decode(VersionByteAccountID, ret.address) IN
    /\ ret.calls = <<[fn |-> "Decode", vb |-> VersionByteAccountID]>>
    /\ d.err # NoErr => ret.err # NoErr
    /\ d.err = NoErr =>
         /\ ret.err = NoErr
         /\ skey.Type = SignerKeyTypeSignerKeyTypeEd25519SignedPayload
         /\ skey.Ed25519 = {} /\ skey.HashX = {} /\ skey.PreAuthTx = {}
         /\ ContentOf(skey, callerBuf)
              = { <<d.raw, SubSeq(callerBuf, 1, ret.plen)>> }

\* C10: on a nil receiver GetAddress returns the empty string and nil, and
\* SetAddress and SetSignedPayload return nil, for every argument, without
\* a codec call and without creating a key.
C10_NilReceiver ==
  (ret.nilrecv /\ ret.op \in {"GetAddress", "SetAddress", "SetSignedPayload"}) =>
    /\ ret.err = NoErr /\ ~ret.panicked
    /\ ret.str = <<>> /\ ret.calls = <<>>
    /\ skey = ret.old

C10_Witness ==
  /\ ret.nilrecv /\ ret.op = "SetAddress" /\ ret.err = NoErr
  /\ SetAddress(FALSE, skey, ret.address).err # NoErr
====
